---- MODULE Spec2Model ----
(***************************************************************************)
(* insights-operator-web-ui: the web UI process of src/webui.go (the       *)
(* variant with startHTTPServer, lines 237-870).  The process reads its    *)
(* configuration, registers one handler per path and serves requests; each *)
(* handler issues at most one request to the controller service and then   *)
(* renders a page, redirects, writes a fixed body or writes nothing.       *)
(*                                                                         *)
(* Strings that take part in URL building are sequences of one-character   *)
(* strings, so that escaping and URL parsing are computed character by     *)
(* character.                                                              *)
(***************************************************************************)
EXTENDS Integers, Sequences, FiniteSets, TLC

VARIABLES pc, controllerURL, inv

vars == <<pc, controllerURL, inv>>

(***************************************************************************)
(* Characters and escaping (net/url as called from webui.go).              *)
(***************************************************************************)

\* Characters url.QueryEscape and url.PathEscape leave alone in every mode.
Unreserved ==
    {"a","b","c","d","e","f","g","h","i","j","k","l","m","n","o","p","q","r",
     "s","t","u","v","w","x","y","z","0","1","2","3","4","5","6","7","8","9",
     "-","_",".","~"}

HexDigits ==
    {"0","1","2","3","4","5","6","7","8","9",
     "A","B","C","D","E","F","a","b","c","d","e","f"}

\* The two hexadecimal digits of the characters of the model's alphabet that
\* are not unreserved.
HexOf ==
    (" " :> <<"2","0">>) @@ ("\"" :> <<"2","2">>) @@ ("#" :> <<"2","3">>) @@
    ("%" :> <<"2","5">>) @@ ("&" :> <<"2","6">>) @@ ("+" :> <<"2","B">>) @@
    ("/" :> <<"2","F">>) @@ (":" :> <<"3","A">>) @@ ("=" :> <<"3","D">>) @@
    ("?" :> <<"3","F">>) @@ ("{" :> <<"7","B">>) @@ ("}" :> <<"7","D">>)

\* The character a pair of hexadecimal digits stands for.
CharOf(h1, h2) ==
    IF \E c \in DOMAIN HexOf : HexOf[c] = <<h1, h2>>
    THEN CHOOSE c \in DOMAIN HexOf : HexOf[c] = <<h1, h2>>
    ELSE "<byte>"

\* net/url shouldEscape, modes encodeQueryComponent and encodePathSegment.
shouldEscape(c, mode) ==
    IF c \in Unreserved THEN FALSE
    ELSE IF c \in {"$", "&", "+", ",", "/", ":", ";", "=", "?", "@"}
         THEN IF mode = "pathSegment" THEN c \in {"/", ";", ",", "?"}
              ELSE TRUE
         ELSE TRUE

RECURSIVE escape(_, _)
escape(s, mode) ==
    IF s = <<>> THEN <<>>
    ELSE LET c == Head(s) IN
         (IF ~shouldEscape(c, mode) THEN <<c>>
          ELSE IF c = " " /\ mode = "queryComponent" THEN <<"+">>
          ELSE <<"%">> \o HexOf[c]) \o escape(Tail(s), mode)

QueryEscape(s) == escape(s, "queryComponent")

PathEscape(s) == escape(s, "pathSegment")

\* net/url unescape fails on a '%' that is not followed by two hex digits.
RECURSIVE validEscapes(_)
validEscapes(s) ==
    IF s = <<>> THEN TRUE
    ELSE IF Head(s) = "%"
         THEN /\ Len(s) >= 3
              /\ s[2] \in HexDigits
              /\ s[3] \in HexDigits
              /\ validEscapes(SubSeq(s, 4, Len(s)))
         ELSE validEscapes(Tail(s))

RECURSIVE unescape(_, _)
unescape(s, mode) ==
    IF s = <<>> THEN <<>>
    ELSE IF Head(s) = "%" /\ Len(s) >= 3
         THEN <<CharOf(s[2], s[3])>> \o unescape(SubSeq(s, 4, Len(s)), mode)
         ELSE IF Head(s) = "+" /\ mode = "queryComponent"
              THEN <<" ">> \o unescape(Tail(s), mode)
              ELSE <<Head(s)>> \o unescape(Tail(s), mode)

\* Index of the first occurrence of character c in s, 0 when there is none.
IndexOf(s, c) ==
    IF \E k \in 1..Len(s) : s[k] = c
    THEN CHOOSE k \in 1..Len(s) : s[k] = c /\ \A j \in 1..(k - 1) : s[j] # c
    ELSE 0

\* strings.Cut: the text before and after the first c.
Cut(s, c) ==
    LET k == IndexOf(s, c) IN
    IF k = 0 THEN [before |-> s, after |-> <<>>, found |-> FALSE]
    ELSE [before |-> SubSeq(s, 1, k - 1),
          after |-> SubSeq(s, k + 1, Len(s)), found |-> TRUE]

HasPrefix(s, p) == Len(s) >= Len(p) /\ SubSeq(s, 1, Len(p)) = p

\* url.Parse as http.NewRequest and http.Get apply it to the URL string:
\* the fragment is cut at the first '#', the query at the first '?', the
\* authority ends at the next '/', and the path must unescape.
urlParse(rawURL) ==
    LET f      == Cut(rawURL, "#")
        s      == Cut(f.before, ":")
        q      == Cut(s.after, "?")
        rest   == q.before
        noAuth == SubSeq(rest, 3, Len(rest))
        slash  == IndexOf(noAuth, "/")
        path   == IF ~HasPrefix(rest, <<"/", "/">>) THEN rest
                  ELSE IF slash = 0 THEN <<>>
                  ELSE SubSeq(noAuth, slash, Len(noAuth))
    IN [ok       |-> s.found /\ validEscapes(path) /\ validEscapes(f.after),
        Path     |-> unescape(path, "path"),
        RawQuery |-> q.after,
        Fragment |-> unescape(f.after, "path")]

\* url.ParseQuery, first value of a key: what the receiving service decodes
\* from the raw query of a request.
RECURSIVE queryGet(_, _)
queryGet(rawQuery, key) ==
    IF rawQuery = <<>> THEN <<"<absent>">>
    ELSE LET p  == Cut(rawQuery, "&")
             kv == Cut(p.before, "=")
         IN IF unescape(kv.before, "queryComponent") = key
            THEN unescape(kv.after, "queryComponent")
            ELSE queryGet(p.after, key)

(***************************************************************************)
(* Inputs: what a browser may send and what the environment may answer.    *)
(***************************************************************************)

\* APIPrefix, webui.go line 273.
APIPrefix == <<"/","a","p","i","/","v","1","/">>

\* The controller_url setting of the configuration file.
ConfigURL == <<"h","t","t","p",":","/","/","c">>

V42 == <<"4","2">>

VFoo == <<"f","o","o">>

VAlice == <<"a","l","i","c","e">>

VTest == <<"t","e","s","t">>

VJson == <<"{","\"","k","\"",":","1","}">>

\* A value that carries URL delimiters.
VInject == <<"7","/","x","?","y">>

\* A value that is no valid percent-encoding.
VBadEscape == <<"%","z","z">>

VAmp == <<"a","&","b","=","c">>

VSpace == <<"x"," ","y">>

VLink == <<"l","#","1">>

\* The most requests the server handles at the same time.
MaxInFlight == 2

\* Several server tasks exist. Their interleavings are explored with one
\* representative input per case; a single task is explored with all inputs.
Concurrent == Cardinality(DOMAIN inv) > 1

\* Values a query parameter may carry (the empty value is "?id=").
QueryValues ==
    IF Concurrent THEN {V42} ELSE {V42, VFoo, VInject, VBadEscape, <<>>}

\* A request that carries no query parameter.
Bare == IF Concurrent THEN {} ELSE {<<>>}

Methods == IF Concurrent THEN {"GET"} ELSE {"GET", "POST"}

NoParams == <<>>

\* request.Form after ParseForm: the submitted fields.
Forms ==
    IF Concurrent
    THEN { ("username" :> VAlice) @@ ("description" :> VTest) @@
           ("configuration" :> VJson) @@ ("cluster" :> VFoo) @@
           ("reason" :> VTest) @@ ("clusterid" :> V42) @@
           ("clustername" :> VFoo) @@ ("link" :> VTest) }
    ELSE
    { ("username" :> VAlice) @@ ("description" :> VTest) @@
      ("configuration" :> VJson) @@ ("cluster" :> VFoo) @@
      ("reason" :> VTest) @@ ("clusterid" :> V42) @@
      ("clustername" :> VFoo) @@ ("link" :> VTest),
      ("username" :> VAmp) @@ ("description" :> VSpace) @@
      ("configuration" :> VSpace) @@ ("cluster" :> VInject) @@
      ("reason" :> VInject) @@ ("clusterid" :> VFoo) @@
      ("clustername" :> VInject) @@ ("link" :> VLink),
      ("username" :> VBadEscape) @@ ("cluster" :> VBadEscape) @@
      ("clustername" :> VBadEscape),
      NoParams }

\* url.Values.Get: the value of the field, "" when it was not submitted.
FormGet(form, key) == IF key \in DOMAIN form THEN form[key] ELSE <<>>

Statuses == IF Concurrent THEN {200} ELSE {200, 201, 202, 400, 404, 500}

\* What reading a response body may give.
Bodies == IF Concurrent THEN {"valid"} ELSE {"valid", "malformed", "unreadable"}

\* What the HTTP client hands back: an error, or a response with a status
\* and a body (well-formed JSON, malformed JSON, or a body whose read fails).
TransportFailure == [kind |-> "error", status |-> 0, body |-> "none"]

ReadReplies ==
    {TransportFailure}
    \cup {[kind |-> "response", status |-> s, body |-> "valid"] :
             s \in Statuses \ {200}}
    \cup {[kind |-> "response", status |-> 200, body |-> b] :
             b \in Bodies}

WriteReplies ==
    {TransportFailure}
    \cup {[kind |-> "response", status |-> s, body |-> "valid"] :
             s \in Statuses}

\* The page templates and static files of the html directory: whether the
\* template loads, and how executing it ends.
Envs ==
    IF Concurrent THEN {[tpl |-> TRUE, exec |-> "ok"]}
    ELSE {[tpl |-> FALSE, exec |-> "ok"]}
         \cup {[tpl |-> TRUE, exec |-> e] : e \in {"ok", "partial", "empty"}}

\* The routes startHTTPServer binds to staticPage, with their files.
StaticFiles ==
    ("/" :> <<"h","t","m","l","/","i","n","d","e","x",".","h","t","m","l">>) @@
    ("/bootstrap.min.css" :> <<"h","t","m","l","/","b","o","o","t","s","t","r","a","p",".","m","i","n",".","c","s","s">>) @@
    ("/bootstrap.min.js" :> <<"h","t","m","l","/","b","o","o","t","s","t","r","a","p",".","m","i","n",".","j","s">>) @@
    ("/ccx.css" :> <<"h","t","m","l","/","c","c","x",".","c","s","s">>) @@
    ("/configuration-created" :> <<"h","t","m","l","/","c","o","n","f","i","g","u","r","a","t","i","o","n","_","c","r","e","a","t","e","d",".","h","t","m","l">>) @@
    ("/configuration-not-created" :> <<"h","t","m","l","/","c","o","n","f","i","g","u","r","a","t","i","o","n","_","n","o","t","_","c","r","e","a","t","e","d",".","h","t","m","l">>) @@
    ("/profile-created" :> <<"h","t","m","l","/","p","r","o","f","i","l","e","_","c","r","e","a","t","e","d",".","h","t","m","l">>) @@
    ("/profile-not-created" :> <<"h","t","m","l","/","p","r","o","f","i","l","e","_","n","o","t","_","c","r","e","a","t","e","d",".","h","t","m","l">>) @@
    ("/new-profile" :> <<"h","t","m","l","/","n","e","w","_","p","r","o","f","i","l","e",".","h","t","m","l">>) @@
    ("/new-configuration" :> <<"h","t","m","l","/","n","e","w","_","c","o","n","f","i","g","u","r","a","t","i","o","n",".","h","t","m","l">>) @@
    ("/trigger-created" :> <<"h","t","m","l","/","t","r","i","g","g","e","r","_","c","r","e","a","t","e","d",".","h","t","m","l">>) @@
    ("/trigger-not-created" :> <<"h","t","m","l","/","t","r","i","g","g","e","r","_","n","o","t","_","c","r","e","a","t","e","d",".","h","t","m","l">>)

\* The static routes requested, and whether the file can be read.
StaticRoutes == IF Concurrent THEN {"/"} ELSE DOMAIN StaticFiles

Readable == IF Concurrent THEN {TRUE} ELSE BOOLEAN

\* The request-handling tasks of the HTTP server.
Slots == {1}

(***************************************************************************)
(* One handler invocation: the request, the outbound request it issued,    *)
(* what the HTTP client returned, and the response written so far.         *)
(***************************************************************************)

FreeInv ==
    [stage   |-> "free",   \* free, waiting (blocked in the HTTP client), done
     handler |-> "", route |-> "", method |-> "",
     query   |-> NoParams, \* request.URL.Query()
     form    |-> NoParams, \* request.Form
     out     |-> <<>>,     \* requests handed to the HTTP client
     result  |-> <<>>,     \* what the HTTP client call produced
     gw      |-> "",       \* error of performReadRequest/performWriteRequest
     gwCode  |-> 0,        \* the status named in the unexpected-status error
     data    |-> "",       \* body performReadRequest returned
     err     |-> "",       \* error the handler tests
     tpl     |-> "",       \* template.ParseFiles: loaded, failed
     exec    |-> "",       \* t.Execute: ok, partial, empty
     file    |-> "",       \* ioutil.ReadFile: read, unreadable
     filename |-> <<>>,    \* the file staticPage was bound to
     records |-> <<>>,     \* the records the controller service holds
     json    |-> <<>>,     \* their JSON document
     decoded |-> <<>>,     \* the records json.Unmarshal filled in
     open    |-> 0,        \* responses received whose body was not closed
     headers |-> <<>>, status |-> 0, body |-> <<>>,
     events  |-> <<>>]     \* the calls of the handler, in program order

NewInvocation(handler, route, method, query, form) ==
    [FreeInv EXCEPT !.stage = "running", !.handler = handler,
                    !.route = route, !.method = method,
                    !.query = query, !.form = form]

\* http.ResponseWriter.WriteHeader: only the first status counts.
WriteHeader(v, code) ==
    [v EXCEPT !.status = IF @ = 0 THEN code ELSE @,
              !.events = Append(@, "WriteHeader")]

\* fmt.Fprint(writer, text): the first write sends status 200 if none was set.
Fprint(v, text) ==
    [v EXCEPT !.status = IF @ = 0 THEN 200 ELSE @,
              !.body = Append(@, text),
              !.events = Append(@, "Write")]

\* writer.Header().Set for every entry of hs.
HeaderSet(v, hs) ==
    [v EXCEPT !.headers = hs @@ @, !.events = Append(@, "Header")]

\* http.Redirect(writer, request, url, code).
Redirect(v, url, code) ==
    LET hadCT == "Content-Type" \in DOMAIN v.headers
        ct    == IF ~hadCT /\ v.method \in {"GET", "HEAD"}
                 THEN ("Content-Type" :> "text/html; charset=utf-8")
                 ELSE <<>>
    IN [v EXCEPT !.headers = ("Location" :> url) @@ ct @@ @,
                 !.status = IF @ = 0 THEN code ELSE @,
                 !.body = IF ~hadCT /\ v.method = "GET"
                          THEN Append(@, "<a href>") ELSE @,
                 !.events = Append(@, "Redirect")]

\* The fixed body without the 404 status.
NotFound_NoStatus(v, text) == Fprint(v, text)

\* writer.WriteHeader(http.StatusNotFound); fmt.Fprint(writer, text)
NotFound(v, text) == Fprint(WriteHeader(v, 404), text)

\* template.ParseFiles failed.
ParseFailed(v) == [v EXCEPT !.tpl = "failed"]

\* t.Execute(writer, dynData) on a loaded template: the page, or on an
\* execution error what was written before the error.
Execute(v, page, env) ==
    LET w == [v EXCEPT !.tpl = "loaded", !.exec = env.exec,
                       !.events = Append(@, "Execute")]
    IN IF env.exec = "ok" THEN Fprint(w, "page:" \o page)
       ELSE IF env.exec = "partial" THEN Fprint(w, "partial:" \o page)
       ELSE w

\* The handler returns; the server sends status 200 if none was written.
Return(v) ==
    [v EXCEPT !.stage = "done", !.status = IF @ = 0 THEN 200 ELSE @]

(***************************************************************************)
(* Backend gateway.                                                        *)
(***************************************************************************)

\* http.NewRequest could not build the request.
RequestError == [kind |-> "norequest", status |-> 0, body |-> "none"]

\* The call into the HTTP client up to the point where the request is sent:
\* the request is built from the URL string and, when that succeeds, the
\* task waits for the controller service.
Send(v, method, url, hasBody, payload) ==
    LET u == urlParse(url) IN
    IF u.ok
    THEN [v EXCEPT !.stage = "waiting",
                   !.out = Append(@, [method |-> method, url |-> url,
                                      Path |-> u.Path,
                                      RawQuery |-> u.RawQuery,
                                      hasBody |-> hasBody,
                                      body |-> payload]),
                   !.events = Append(@, "Call")]
    ELSE [v EXCEPT !.events = Append(@, "Call")]

\* performReadRequest that takes every status below 400 for success.
performReadRequest_Any2xx(reply) ==
    IF reply.kind # "response"
    THEN [err |-> "comm", code |-> 0, body |-> "none", open |-> FALSE]
    ELSE IF reply.status >= 400
    THEN [err |-> "status", code |-> reply.status, body |-> "none", open |-> TRUE]
    ELSE IF reply.body = "unreadable"
    THEN [err |-> "readbody", code |-> 0, body |-> "none", open |-> FALSE]
    ELSE [err |-> "none", code |-> 0, body |-> reply.body, open |-> FALSE]

\* http.Get, the status test, ioutil.ReadAll and the deferred
\* response.Body.Close(): the defer is registered after the status test, so
\* a response with another status is returned from with its body open.
performReadRequest(reply) ==
    IF reply.kind # "response"
    THEN [err |-> "comm", code |-> 0, body |-> "none", open |-> FALSE]
    ELSE IF reply.status # 200
    THEN [err |-> "status", code |-> reply.status, body |-> "none", open |-> TRUE]
    ELSE IF reply.body = "unreadable"
    THEN [err |-> "readbody", code |-> 0, body |-> "none", open |-> FALSE]
    ELSE [err |-> "none", code |-> 0, body |-> reply.body, open |-> FALSE]

\* performWriteRequest that forgets 202 Accepted.
performWriteRequest_No202(reply) ==
    IF reply.kind = "norequest"
    THEN [err |-> "create", code |-> 0, body |-> "none", open |-> FALSE]
    ELSE IF reply.kind # "response"
    THEN [err |-> "comm", code |-> 0, body |-> "none", open |-> FALSE]
    ELSE IF reply.status # 200 /\ reply.status # 201
    THEN [err |-> "status", code |-> reply.status, body |-> "none", open |-> TRUE]
    ELSE [err |-> "none", code |-> 0, body |-> "none", open |-> TRUE]

\* http.NewRequest, client.Do and the status test; no path closes the body
\* of the response.
performWriteRequest(reply) ==
    IF reply.kind = "norequest"
    THEN [err |-> "create", code |-> 0, body |-> "none", open |-> FALSE]
    ELSE IF reply.kind # "response"
    THEN [err |-> "comm", code |-> 0, body |-> "none", open |-> FALSE]
    ELSE IF reply.status # 200 /\ reply.status # 201 /\ reply.status # 202
    THEN [err |-> "status", code |-> reply.status, body |-> "none", open |-> TRUE]
    ELSE [err |-> "none", code |-> 0, body |-> "none", open |-> TRUE]

\* json.Unmarshal(body, &x) after the read, as every read operation does.
Unmarshal(r) ==
    IF r.err # "none" THEN r
    ELSE IF r.body = "malformed"
    THEN [err |-> "json", code |-> 0, body |-> "none", open |-> r.open]
    ELSE r

readListOfClustersURL(cURL, apiPrefix) ==
    cURL \o apiPrefix \o <<"c","l","i","e","n","t","/","c","l","u","s","t","e","r">>

readListOfClusters(reply) == Unmarshal(performReadRequest(reply))

readListOfConfigurationProfilesURL(cURL, apiPrefix) ==
    cURL \o apiPrefix \o <<"c","l","i","e","n","t","/","p","r","o","f","i","l","e">>

readListOfConfigurationProfiles(reply) == Unmarshal(performReadRequest(reply))

readListOfConfigurationsURL(cURL, apiPrefix) ==
    cURL \o apiPrefix \o <<"c","l","i","e","n","t","/","c","o","n","f","i","g","u","r","a","t","i","o","n">>

readListOfConfigurations(reply) == Unmarshal(performReadRequest(reply))

readListOfTriggersURL(cURL, apiPrefix, clusterName) ==
    cURL \o apiPrefix \o <<"c","l","i","e","n","t","/","c","l","u","s","t","e","r","/">> \o clusterName \o <<"/","t","r","i","g","g","e","r">>

readListOfTriggers(reply) == Unmarshal(performReadRequest(reply))

readListOfAllTriggersURL(cURL, apiPrefix) ==
    cURL \o apiPrefix \o <<"c","l","i","e","n","t","/","t","r","i","g","g","e","r">>

readListOfAllTriggers(reply) == Unmarshal(performReadRequest(reply))

readConfigurationProfileURL(cURL, apiPrefix, profileID) ==
    cURL \o apiPrefix \o <<"c","l","i","e","n","t","/","p","r","o","f","i","l","e","/">> \o profileID

readConfigurationProfile(reply) == Unmarshal(performReadRequest(reply))

\* The HTTP client call returned: its result and the gateway's verdict are
\* recorded with the invocation.
Received(v, reply, g, r) ==
    [v EXCEPT !.result = Append(@, reply), !.gw = g.err, !.gwCode = g.code,
              !.data = g.body, !.err = r.err,
              !.open = IF g.open THEN @ + 1 ELSE @,
              !.events = Append(@, "Reply")]

\* A variant in which a task takes a request only while no other task is
\* blocked in a backend call.
CanAccept_OneAtATime(i) ==
    /\ pc = "serving" /\ inv[i].stage \in {"free", "done"}
    /\ \A j \in DOMAIN inv : inv[j].stage # "waiting"

\* A task may take the next request once the server is listening.
CanAccept(i) == pc = "serving" /\ inv[i].stage \in {"free", "done"}

Waiting(i, handler) ==
    inv[i].stage = "waiting" /\ inv[i].handler = handler

\* The invocation w either waits for the controller service or, when the
\* request could not be built, goes on at once to one of the given ends.
Block(i, w, ends) ==
    IF w.stage = "waiting"
    THEN inv' = [inv EXCEPT ![i] = w]
    ELSE \E end \in ends : inv' = [inv EXCEPT ![i] = end]

(***************************************************************************)
(* Static pages.                                                           *)
(***************************************************************************)

HasSuffix(s, x) ==
    Len(s) >= Len(x) /\ SubSeq(s, Len(s) - Len(x) + 1, Len(s)) = x

\* A variant that announces scripts as JSON.
getContentType_ScriptAsJson(filename) ==
    IF HasSuffix(filename, <<".","h","t","m","l">>) THEN "text/html"
    ELSE IF HasSuffix(filename, <<".","j","s">>) THEN "application/json"
    ELSE IF HasSuffix(filename, <<".","c","s","s">>) THEN "text/css"
    ELSE "text/html"

getContentType(filename) ==
    IF HasSuffix(filename, <<".","h","t","m","l">>) THEN "text/html"
    ELSE IF HasSuffix(filename, <<".","j","s">>) THEN "application/javascript"
    ELSE IF HasSuffix(filename, <<".","c","s","s">>) THEN "text/css"
    ELSE "text/html"

sendStaticPage(v, filename, readable) ==
    IF readable
    THEN Fprint(HeaderSet([v EXCEPT !.file = "read", !.filename = filename],
                          ("Server" :> "A Go Web Server") @@
                          ("Content-Type" :> getContentType(filename))),
                "file")
    ELSE NotFound([v EXCEPT !.file = "unreadable", !.filename = filename],
                  "Not found!")

staticPage(i) ==
    /\ CanAccept(i)
    /\ \E route \in StaticRoutes, method \in Methods,
          readable \in Readable :
         inv' = [inv EXCEPT ![i] =
                   Return(sendStaticPage(
                       NewInvocation("staticPage", route, method,
                                     NoParams, NoParams),
                       StaticFiles[route], readable))]
    /\ UNCHANGED <<pc, controllerURL>>

\* File names put together from at most MaxParts of these parts: the
\* extensions getContentType tells apart, and text it does not know.
MaxParts == 2

NameParts ==
    { <<"a">>, <<"j","s">>, <<".","h","t","m","l">>, <<".","j","s">>,
      <<".","c","s","s">>, <<".","t","x","t">> }

RECURSIVE Join(_)
Join(parts) == IF parts = <<>> THEN <<>> ELSE Head(parts) \o Join(Tail(parts))

FileNames ==
    { Join(parts) : parts \in UNION { [1..n -> NameParts] : n \in 1..MaxParts } }

\* staticPage(filename) for any file name: the handler the factory returns
\* when it is bound to that file.
staticPageFor(i) ==
    /\ CanAccept(i)
    /\ \E filename \in FileNames, method \in Methods, readable \in BOOLEAN :
         inv' = [inv EXCEPT ![i] =
                   Return(sendStaticPage(
                       NewInvocation("staticPage", "", method,
                                     NoParams, NoParams),
                       filename, readable))]
    /\ UNCHANGED <<pc, controllerURL>>

(***************************************************************************)
(* Read-and-render handlers.                                               *)
(***************************************************************************)

listClustersRest(v, reply, env) ==
    LET r == readListOfClusters(reply)
        w == Received(v, reply, performReadRequest(reply), r)
    IN IF r.err # "none" THEN Return(w)
       ELSE IF ~env.tpl
       THEN Return(NotFound(ParseFailed(w), "Not found!"))
       ELSE Return(Execute(w, "html/list_clusters.html", env))

listClusters(i) ==
    /\ \/ /\ CanAccept(i)
          /\ \E method \in Methods :
               LET w == Send(NewInvocation("listClusters", "/list-clusters",
                                           method, NoParams, NoParams),
                             "GET",
                             readListOfClustersURL(controllerURL, APIPrefix),
                             FALSE, <<>>)
               IN Block(i, w, {listClustersRest(w, TransportFailure, env) :
                                   env \in Envs})
       \/ /\ Waiting(i, "listClusters")
          /\ \E reply \in ReadReplies, env \in Envs :
               inv' = [inv EXCEPT ![i] = listClustersRest(inv[i], reply, env)]
    /\ UNCHANGED <<pc, controllerURL>>

\* listProfiles that answers a failed read with 404.
listProfilesRest_NotFoundOnError(v, reply, env) ==
    LET r == readListOfConfigurationProfiles(reply)
        w == Received(v, reply, performReadRequest(reply), r)
    IN IF r.err # "none" THEN Return(NotFound(w, "Not found!"))
       ELSE IF ~env.tpl
       THEN Return(NotFound(ParseFailed(w), "Not found!"))
       ELSE Return(Execute(w, "html/list_profiles.html", env))

listProfilesRest(v, reply, env) ==
    LET r == readListOfConfigurationProfiles(reply)
        w == Received(v, reply, performReadRequest(reply), r)
    IN IF r.err # "none" THEN Return(w)
       ELSE IF ~env.tpl
       THEN Return(NotFound(ParseFailed(w), "Not found!"))
       ELSE Return(Execute(w, "html/list_profiles.html", env))

listProfiles(i) ==
    /\ \/ /\ CanAccept(i)
          /\ \E method \in Methods :
               LET w == Send(NewInvocation("listProfiles", "/list-profiles",
                                           method, NoParams, NoParams),
                             "GET",
                             readListOfConfigurationProfilesURL(
                                 controllerURL, APIPrefix),
                             FALSE, <<>>)
               IN Block(i, w, {listProfilesRest(w, TransportFailure, env) :
                                   env \in Envs})
       \/ /\ Waiting(i, "listProfiles")
          /\ \E reply \in ReadReplies, env \in Envs :
               inv' = [inv EXCEPT ![i] = listProfilesRest(inv[i], reply, env)]
    /\ UNCHANGED <<pc, controllerURL>>

\* epoch == time.Unix(0, 0).Format(time.RFC1123), in the server's time zone.
noCacheHeaders ==
    ("Expires" :> "Thu, 01 Jan 1970 00:00:00 UTC") @@
    ("Cache-Control" :> "no-cache, private, max-age=0") @@
    ("Pragma" :> "no-cache") @@
    ("X-Accel-Expires" :> "0")

\* A variant that sets the headers only for a page it renders.
listConfigurationsRest_HeadersOnSuccess(v, reply, env) ==
    LET r == readListOfConfigurations(reply)
        w == Received(v, reply, performReadRequest(reply), r)
    IN IF r.err # "none" THEN Return(w)
       ELSE IF ~env.tpl
       THEN Return(HeaderSet(NotFound(ParseFailed(w), "Not found!"),
                             noCacheHeaders))
       ELSE Return(Execute(HeaderSet(w, noCacheHeaders),
                           "html/list_configurations.html", env))

listConfigurationsRest(v, reply, env) ==
    LET r == readListOfConfigurations(reply)
        w == HeaderSet(Received(v, reply, performReadRequest(reply), r),
                       noCacheHeaders)
    IN IF r.err # "none" THEN Return(w)
       ELSE IF ~env.tpl
       THEN Return(NotFound(ParseFailed(w), "Not found!"))
       ELSE Return(Execute(w, "html/list_configurations.html", env))

listConfigurations(i) ==
    /\ \/ /\ CanAccept(i)
          /\ \E method \in Methods :
               LET w == Send(NewInvocation("listConfigurations",
                                           "/list-configurations",
                                           method, NoParams, NoParams),
                             "GET",
                             readListOfConfigurationsURL(controllerURL,
                                                         APIPrefix),
                             FALSE, <<>>)
               IN Block(i, w, {listConfigurationsRest(w, TransportFailure, env) :
                                   env \in Envs})
       \/ /\ Waiting(i, "listConfigurations")
          /\ \E reply \in ReadReplies, env \in Envs :
               inv' = [inv EXCEPT ![i] =
                         listConfigurationsRest(inv[i], reply, env)]
    /\ UNCHANGED <<pc, controllerURL>>

\* The two routes startHTTPServer binds to listTriggers.
TriggerRoutes ==
    IF Concurrent THEN {"/list-triggers"}
    ELSE {"/list-triggers", "/list-all-triggers"}

\* The clusterName parameter of a trigger list request, absent or present.
ClusterNameQueries ==
    Bare \cup {("clusterName" :> x) : x \in QueryValues}

\* A variant that leaves the headers out when the read failed.
listTriggersRest_PlainOnError(v, reply, env) ==
    LET r == IF "clusterName" \notin DOMAIN v.query
             THEN readListOfAllTriggers(reply)
             ELSE readListOfTriggers(reply)
        u == Received(v, reply, performReadRequest(reply), r)
        w == HeaderSet(u, noCacheHeaders)
    IN IF r.err # "none" THEN Return(u)
       ELSE IF ~env.tpl
       THEN Return(NotFound(ParseFailed(w), "Not found!"))
       ELSE Return(Execute(w, "html/list_triggers.html", env))

listTriggersRest(v, reply, env) ==
    LET r == IF "clusterName" \notin DOMAIN v.query
             THEN readListOfAllTriggers(reply)
             ELSE readListOfTriggers(reply)
        w == HeaderSet(Received(v, reply, performReadRequest(reply), r),
                       noCacheHeaders)
    IN IF r.err # "none" THEN Return(w)
       ELSE IF ~env.tpl
       THEN Return(NotFound(ParseFailed(w), "Not found!"))
       ELSE Return(Execute(w, "html/list_triggers.html", env))

listTriggers(i) ==
    /\ \/ /\ CanAccept(i)
          /\ \E route \in TriggerRoutes,
                method \in Methods, query \in ClusterNameQueries :
               LET v == NewInvocation("listTriggers", route, method,
                                      query, NoParams)
                   ok == "clusterName" \in DOMAIN query
                   url == IF ~ok
                          THEN readListOfAllTriggersURL(controllerURL,
                                                        APIPrefix)
                          ELSE readListOfTriggersURL(controllerURL, APIPrefix,
                                                     query["clusterName"])
               IN LET w == Send(v, "GET", url, FALSE, <<>>)
                  IN Block(i, w, {listTriggersRest(w, TransportFailure, env) :
                                      env \in Envs})
       \/ /\ Waiting(i, "listTriggers")
          /\ \E reply \in ReadReplies, env \in Envs :
               inv' = [inv EXCEPT ![i] = listTriggersRest(inv[i], reply, env)]
    /\ UNCHANGED <<pc, controllerURL>>

ConfigurationQueries ==
    Bare \cup {("configuration" :> x) : x \in QueryValues}

\* A variant that answers a template failure like the list handlers do.
describeConfigurationRest_ListText(v, reply, env) ==
    LET r == readConfigurationProfile(reply)
        w == Received(v, reply, performReadRequest(reply), r)
    IN IF r.err # "none" THEN Return(NotFound(w, "Not found!"))
       ELSE IF ~env.tpl
       THEN Return(NotFound(ParseFailed(w), "Not found!"))
       ELSE Return(Execute(w, "html/describe_configuration.html", env))

describeConfigurationRest(v, reply, env) ==
    LET r == readConfigurationProfile(reply)
        w == Received(v, reply, performReadRequest(reply), r)
    IN IF r.err # "none" THEN Return(NotFound(w, "Not found!"))
       ELSE IF ~env.tpl
       THEN Return(NotFound(ParseFailed(w), "Error parsing template"))
       ELSE Return(Execute(w, "html/describe_configuration.html", env))

describeConfiguration(i) ==
    /\ \/ /\ CanAccept(i)
          /\ \E method \in Methods, query \in ConfigurationQueries :
               LET v == NewInvocation("describeConfiguration",
                                      "/describe-configuration", method,
                                      query, NoParams)
               IN IF "configuration" \notin DOMAIN query
                  THEN inv' = [inv EXCEPT ![i] =
                                 Return(NotFound(v, "Not found!"))]
                  ELSE LET w == Send(v, "GET",
                                     readConfigurationProfileURL(
                                         controllerURL, APIPrefix,
                                         query["configuration"]),
                                     FALSE, <<>>)
                       IN Block(i, w, {describeConfigurationRest(w, TransportFailure, env) :
                                           env \in Envs})
       \/ /\ Waiting(i, "describeConfiguration")
          /\ \E reply \in ReadReplies, env \in Envs :
               inv' = [inv EXCEPT ![i] =
                         describeConfigurationRest(inv[i], reply, env)]
    /\ UNCHANGED <<pc, controllerURL>>

(***************************************************************************)
(* Write-and-redirect handlers.                                            *)
(***************************************************************************)

\* storeProfile that escapes the query values as path segments.
storeProfileURL_PathEscape(cURL, username, description) ==
    LET query == <<"u","s","e","r","n","a","m","e","=">> \o PathEscape(username)
                 \o <<"&","d","e","s","c","r","i","p","t","i","o","n","=">> \o PathEscape(description)
    IN cURL \o APIPrefix \o <<"c","l","i","e","n","t","/","p","r","o","f","i","l","e","?">> \o query

storeProfileURL(cURL, username, description) ==
    LET query == <<"u","s","e","r","n","a","m","e","=">> \o QueryEscape(username)
                 \o <<"&","d","e","s","c","r","i","p","t","i","o","n","=">> \o QueryEscape(description)
    IN cURL \o APIPrefix \o <<"c","l","i","e","n","t","/","p","r","o","f","i","l","e","?">> \o query

storeProfileRest(v, reply, env) ==
    LET e == performWriteRequest(reply)
        w == Received(v, reply, e, e)
    IN IF e.err # "none"
       THEN Return(Redirect(w, "/profile-not-created", 301))
       ELSE Return(Redirect(w, "/profile-created", 301))

storeProfile(i) ==
    /\ \/ /\ CanAccept(i)
          /\ \E method \in Methods, form \in Forms :
               LET v == NewInvocation("storeProfile", "/store-profile",
                                      method, NoParams, form)
                   username == FormGet(form, "username")
                   description == FormGet(form, "description")
                   configuration == FormGet(form, "configuration")
               IN LET w == Send(v, "POST",
                                storeProfileURL(controllerURL, username,
                                                description),
                                TRUE, configuration)
                  IN Block(i, w, {storeProfileRest(w, RequestError, env) :
                                      env \in Envs})
       \/ /\ Waiting(i, "storeProfile")
          /\ \E reply \in WriteReplies, env \in Envs :
               inv' = [inv EXCEPT ![i] = storeProfileRest(inv[i], reply, env)]
    /\ UNCHANGED <<pc, controllerURL>>

\* A variant that posts the configuration to another resource.
storeConfigurationURL_OtherResource(cURL, username, cluster, reason, description) ==
    cURL \o APIPrefix \o <<"c","l","i","e","n","t","/","c","l","u","s","t","e","r","s","/">> \o PathEscape(cluster)
    \o <<"/","c","o","n","f","i","g","u","r","a","t","i","o","n","?">>
    \o <<"u","s","e","r","n","a","m","e","=">> \o QueryEscape(username)
    \o <<"&","r","e","a","s","o","n","=">> \o QueryEscape(reason)
    \o <<"&","d","e","s","c","r","i","p","t","i","o","n","=">> \o QueryEscape(description)

storeConfigurationURL(cURL, username, cluster, reason, description) ==
    LET query == <<"u","s","e","r","n","a","m","e","=">> \o QueryEscape(username)
                 \o <<"&","r","e","a","s","o","n","=">> \o QueryEscape(reason)
                 \o <<"&","d","e","s","c","r","i","p","t","i","o","n","=">> \o QueryEscape(description)
    IN cURL \o APIPrefix \o <<"c","l","i","e","n","t","/","c","l","u","s","t","e","r","/">> \o PathEscape(cluster)
       \o <<"/","c","o","n","f","i","g","u","r","a","t","i","o","n","?">> \o query

\* A variant that answers a failed write with 404 and goes on to redirect.
storeConfigurationRest_NotFoundThenRedirect(v, reply, env) ==
    LET e == performWriteRequest(reply)
        w == Received(v, reply, e, e)
    IN IF e.err # "none"
       THEN Return(Redirect(NotFound(w, "Not found!"),
                            "/configuration-not-created", 301))
       ELSE Return(Redirect(w, "/configuration-created", 301))

storeConfigurationRest(v, reply, env) ==
    LET e == performWriteRequest(reply)
        w == Received(v, reply, e, e)
    IN IF e.err # "none"
       THEN Return(Redirect(w, "/configuration-not-created", 301))
       ELSE Return(Redirect(w, "/configuration-created", 301))

storeConfiguration(i) ==
    /\ \/ /\ CanAccept(i)
          /\ \E method \in Methods, form \in Forms :
               LET v == NewInvocation("storeConfiguration",
                                      "/store-configuration",
                                      method, NoParams, form)
                   username == FormGet(form, "username")
                   cluster == FormGet(form, "cluster")
                   reason == FormGet(form, "reason")
                   description == FormGet(form, "description")
                   configuration == FormGet(form, "configuration")
               IN LET w == Send(v, "POST",
                                storeConfigurationURL(controllerURL, username,
                                                      cluster, reason,
                                                      description),
                                TRUE, configuration)
                  IN Block(i, w, {storeConfigurationRest(w, RequestError, env) :
                                      env \in Envs})
       \/ /\ Waiting(i, "storeConfiguration")
          /\ \E reply \in WriteReplies, env \in Envs :
               inv' = [inv EXCEPT ![i] =
                         storeConfigurationRest(inv[i], reply, env)]
    /\ UNCHANGED <<pc, controllerURL>>

\* The id parameter of a toggle request, absent or present.
IdQueries == Bare \cup {("id" :> x) : x \in QueryValues}

enableConfigurationURL(cURL, configurationID) ==
    cURL \o APIPrefix \o <<"c","l","i","e","n","t","/","c","o","n","f","i","g","u","r","a","t","i","o","n","/">> \o configurationID
    \o <<"/","e","n","a","b","l","e">>

enableConfigurationRest(v, reply, env) ==
    LET e == performWriteRequest(reply)
        w == Received(v, reply, e, e)
    IN IF e.err # "none" THEN Return(w)
       ELSE Return(Redirect(w, "/list-configurations", 307))

enableConfiguration(i) ==
    /\ \/ /\ CanAccept(i)
          /\ \E method \in Methods, query \in IdQueries :
               LET v == NewInvocation("enableConfiguration",
                                      "/enable-configuration", method,
                                      query, NoParams)
               IN IF "id" \notin DOMAIN query
                  THEN inv' = [inv EXCEPT ![i] =
                                 Return(NotFound(v, "Not found!"))]
                  ELSE LET w == Send(v, "PUT",
                                     enableConfigurationURL(controllerURL,
                                                            query["id"]),
                                     FALSE, <<>>)
                       IN Block(i, w, {enableConfigurationRest(w, RequestError, env) :
                                           env \in Envs})
       \/ /\ Waiting(i, "enableConfiguration")
          /\ \E reply \in WriteReplies, env \in Envs :
               inv' = [inv EXCEPT ![i] =
                         enableConfigurationRest(inv[i], reply, env)]
    /\ UNCHANGED <<pc, controllerURL>>

disableConfigurationURL(cURL, configurationID) ==
    cURL \o APIPrefix \o <<"c","l","i","e","n","t","/","c","o","n","f","i","g","u","r","a","t","i","o","n","/">> \o configurationID
    \o <<"/","d","i","s","a","b","l","e">>

disableConfigurationRest(v, reply, env) ==
    LET e == performWriteRequest(reply)
        w == Received(v, reply, e, e)
    IN IF e.err # "none" THEN Return(w)
       ELSE Return(Redirect(w, "/list-configurations", 307))

disableConfiguration(i) ==
    /\ \/ /\ CanAccept(i)
          /\ \E method \in Methods, query \in IdQueries :
               LET v == NewInvocation("disableConfiguration",
                                      "/disable-configuration", method,
                                      query, NoParams)
               IN IF "id" \notin DOMAIN query
                  THEN inv' = [inv EXCEPT ![i] =
                                 Return(NotFound(v, "Not found!"))]
                  ELSE LET w == Send(v, "PUT",
                                     disableConfigurationURL(controllerURL,
                                                             query["id"]),
                                     FALSE, <<>>)
                       IN Block(i, w, {disableConfigurationRest(w, RequestError, env) :
                                           env \in Envs})
       \/ /\ Waiting(i, "disableConfiguration")
          /\ \E reply \in WriteReplies, env \in Envs :
               inv' = [inv EXCEPT ![i] =
                         disableConfigurationRest(inv[i], reply, env)]
    /\ UNCHANGED <<pc, controllerURL>>

activateTriggerURL(cURL, triggerID) ==
    cURL \o APIPrefix \o <<"c","l","i","e","n","t","/","t","r","i","g","g","e","r","/">> \o triggerID \o <<"/","a","c","t","i","v","a","t","e">>

activateTriggerRest(v, reply, env) ==
    LET e == performWriteRequest(reply)
        w == Received(v, reply, e, e)
    IN IF e.err # "none" THEN Return(w)
       ELSE Return(Redirect(w, "/list-triggers", 307))

activateTrigger(i) ==
    /\ \/ /\ CanAccept(i)
          /\ \E method \in Methods, query \in IdQueries :
               LET v == NewInvocation("activateTrigger", "/activate-trigger",
                                      method, query, NoParams)
               IN IF "id" \notin DOMAIN query
                  THEN inv' = [inv EXCEPT ![i] =
                                 Return(NotFound(v, "Not found!"))]
                  ELSE LET w == Send(v, "PUT",
                                     activateTriggerURL(controllerURL,
                                                        query["id"]),
                                     FALSE, <<>>)
                       IN Block(i, w, {activateTriggerRest(w, RequestError, env) :
                                           env \in Envs})
       \/ /\ Waiting(i, "activateTrigger")
          /\ \E reply \in WriteReplies, env \in Envs :
               inv' = [inv EXCEPT ![i] =
                         activateTriggerRest(inv[i], reply, env)]
    /\ UNCHANGED <<pc, controllerURL>>

deactivateTriggerURL(cURL, triggerID) ==
    cURL \o APIPrefix \o <<"c","l","i","e","n","t","/","t","r","i","g","g","e","r","/">> \o triggerID \o <<"/","d","e","a","c","t","i","v","a","t","e">>

\* deactivateTrigger that redirects whatever the write returned.
deactivateTriggerRest_RedirectOnError(v, reply, env) ==
    LET e == performWriteRequest(reply)
        w == Received(v, reply, e, e)
    IN Return(Redirect(w, "/list-triggers", 307))

deactivateTriggerRest(v, reply, env) ==
    LET e == performWriteRequest(reply)
        w == Received(v, reply, e, e)
    IN IF e.err # "none" THEN Return(w)
       ELSE Return(Redirect(w, "/list-triggers", 307))

deactivateTrigger(i) ==
    /\ \/ /\ CanAccept(i)
          /\ \E method \in Methods, query \in IdQueries :
               LET v == NewInvocation("deactivateTrigger",
                                      "/deactivate-trigger",
                                      method, query, NoParams)
               IN IF "id" \notin DOMAIN query
                  THEN inv' = [inv EXCEPT ![i] =
                                 Return(NotFound(v, "Not found!"))]
                  ELSE LET w == Send(v, "PUT",
                                     deactivateTriggerURL(controllerURL,
                                                          query["id"]),
                                     FALSE, <<>>)
                       IN Block(i, w, {deactivateTriggerRest(w, RequestError, env) :
                                           env \in Envs})
       \/ /\ Waiting(i, "deactivateTrigger")
          /\ \E reply \in WriteReplies, env \in Envs :
               inv' = [inv EXCEPT ![i] =
                         deactivateTriggerRest(inv[i], reply, env)]
    /\ UNCHANGED <<pc, controllerURL>>

\* strconv.Atoi succeeds on an optional sign followed by decimal digits.
AtoiOK(s) ==
    LET Digits == {"0","1","2","3","4","5","6","7","8","9"}
        d == IF s # <<>> /\ Head(s) \in {"+", "-"} THEN Tail(s) ELSE s
    IN d # <<>> /\ \A k \in 1..Len(d) : d[k] \in Digits

\* The parameters of a must-gather form request.
MustGatherQueries ==
    IF Concurrent THEN {("clusterID" :> V42) @@ ("clusterName" :> VFoo)}
    ELSE
    {a @@ b : a \in {NoParams} \cup {("clusterID" :> x) : x \in {V42, VFoo}},
              b \in {NoParams} \cup
                    {("clusterName" :> x) : x \in {VFoo, VInject}}}

triggerMustGatherConfiguration(i) ==
    /\ CanAccept(i)
    /\ \E method \in Methods, query \in MustGatherQueries, env \in Envs :
         LET v == NewInvocation("triggerMustGatherConfiguration",
                                "/trigger-must-gather-configuration",
                                method, query, NoParams)
         IN inv' = [inv EXCEPT ![i] =
              IF "clusterID" \notin DOMAIN query
              THEN Return(NotFound(v, "Not found!"))
              ELSE IF ~AtoiOK(query["clusterID"])
              THEN Return(NotFound(v, "Not found!"))
              ELSE IF "clusterName" \notin DOMAIN query
              THEN Return(NotFound(v, "Not found!"))
              ELSE IF ~env.tpl
              THEN Return(NotFound(ParseFailed(v), "Error parsing template"))
              ELSE Return(Execute(v, "html/trigger_must_gather.html", env))]
    /\ UNCHANGED <<pc, controllerURL>>

triggerMustGatherURL(cURL, clusterName, username, reason, link) ==
    LET query == <<"u","s","e","r","n","a","m","e","=">> \o QueryEscape(username)
                 \o <<"&","r","e","a","s","o","n","=">> \o QueryEscape(reason)
                 \o <<"&","l","i","n","k","=">> \o QueryEscape(link)
    IN cURL \o APIPrefix \o <<"c","l","i","e","n","t","/","c","l","u","s","t","e","r","/">> \o PathEscape(clusterName)
       \o <<"/","t","r","i","g","g","e","r","/","m","u","s","t","-","g","a","t","h","e","r","?">> \o query

\* triggerMustGather that ignores the error of the write.
triggerMustGatherRest_AlwaysCreated(v, reply, env) ==
    LET e == performWriteRequest(reply)
        w == Received(v, reply, e, e)
    IN Return(Redirect(w, "/trigger-created", 301))

triggerMustGatherRest(v, reply, env) ==
    LET e == performWriteRequest(reply)
        w == Received(v, reply, e, e)
    IN IF e.err # "none"
       THEN Return(Redirect(w, "/trigger-not-created", 301))
       ELSE Return(Redirect(w, "/trigger-created", 301))

triggerMustGather(i) ==
    /\ \/ /\ CanAccept(i)
          /\ \E method \in Methods, form \in Forms :
               LET v == NewInvocation("triggerMustGather",
                                      "/trigger-must-gather",
                                      method, NoParams, form)
                   clusterName == FormGet(form, "clustername")
                   username == FormGet(form, "username")
                   reason == FormGet(form, "reason")
                   link == FormGet(form, "link")
               IN LET w == Send(v, "POST",
                                triggerMustGatherURL(controllerURL,
                                                     clusterName, username,
                                                     reason, link),
                                FALSE, <<>>)
                  IN Block(i, w, {triggerMustGatherRest(w, RequestError, env) :
                                      env \in Envs})
       \/ /\ Waiting(i, "triggerMustGather")
          /\ \E reply \in WriteReplies, env \in Envs :
               inv' = [inv EXCEPT ![i] =
                         triggerMustGatherRest(inv[i], reply, env)]
    /\ UNCHANGED <<pc, controllerURL>>

(***************************************************************************)
(* The records of the controller service and their JSON form.              *)
(***************************************************************************)

\* The struct declarations: Go field, JSON name, Go type.
EntityFields ==
    ("Cluster" :>
       << [field |-> "ID", tag |-> "id", type |-> "int"],
          [field |-> "Name", tag |-> "name", type |-> "string"] >>) @@
    ("ConfigurationProfile" :>
       << [field |-> "ID", tag |-> "id", type |-> "int"],
          [field |-> "Configuration", tag |-> "configuration", type |-> "string"],
          [field |-> "ChangedAt", tag |-> "changed_at", type |-> "string"],
          [field |-> "ChangedBy", tag |-> "changed_by", type |-> "string"],
          [field |-> "Description", tag |-> "description", type |-> "string"] >>) @@
    ("ClusterConfiguration" :>
       << [field |-> "Id", tag |-> "id", type |-> "int"],
          [field |-> "Cluster", tag |-> "cluster", type |-> "string"],
          [field |-> "Configuration", tag |-> "configuration", type |-> "string"],
          [field |-> "ChangedAt", tag |-> "changed_at", type |-> "string"],
          [field |-> "ChangedBy", tag |-> "changed_by", type |-> "string"],
          [field |-> "Active", tag |-> "active", type |-> "string"],
          [field |-> "Reason", tag |-> "reason", type |-> "string"] >>) @@
    ("Trigger" :>
       << [field |-> "ID", tag |-> "id", type |-> "int"],
          [field |-> "Type", tag |-> "type", type |-> "string"],
          [field |-> "Cluster", tag |-> "cluster", type |-> "string"],
          [field |-> "Reason", tag |-> "reason", type |-> "string"],
          [field |-> "Link", tag |-> "link", type |-> "string"],
          [field |-> "TriggeredAt", tag |-> "triggered_at", type |-> "string"],
          [field |-> "TriggeredBy", tag |-> "triggered_by", type |-> "string"],
          [field |-> "AckedAt", tag |-> "acked_at", type |-> "string"],
          [field |-> "Parameters", tag |-> "parameters", type |-> "string"],
          [field |-> "Active", tag |-> "active", type |-> "int"] >>)

\* The type of the slice each list operation decodes into.
ElementType ==
    ("readListOfClusters" :> "Cluster") @@
    ("readListOfConfigurationProfiles" :> "ConfigurationProfile") @@
    ("readListOfConfigurations" :> "ClusterConfiguration") @@
    ("readListOfTriggers" :> "Trigger") @@
    ("readListOfAllTriggers" :> "Trigger")

FieldNames(T) == {EntityFields[T][k].field : k \in 1..Len(EntityFields[T])}

\* A struct value before decoding: every field holds its zero value.
ZeroRecord(T) ==
    [name \in FieldNames(T) |->
       LET f == CHOOSE g \in {EntityFields[T][k] : k \in 1..Len(EntityFields[T])} :
                   g.field = name
       IN IF f.type = "int" THEN 0 ELSE <<>>]

DigitChar == <<"0","1","2","3","4","5","6","7","8","9">>

\* The decimal text of an integer.
RECURSIVE Itoa(_)
Itoa(n) ==
    IF n < 0 THEN <<"-">> \o Itoa(0 - n)
    ELSE IF n < 10 THEN <<DigitChar[n + 1]>>
    ELSE Itoa(n \div 10) \o <<DigitChar[(n % 10) + 1]>>

\* The value of a run of decimal digits.
RECURSIVE DigitsValue(_)
DigitsValue(d) ==
    IF d = <<>> THEN 0
    ELSE 10 * DigitsValue(SubSeq(d, 1, Len(d) - 1))
         + (CHOOSE k \in 0..9 : DigitChar[k + 1] = d[Len(d)])

\* A JSON number that an int field accepts: an optional minus and digits.
IsIntegerText(t) ==
    LET d == IF t # <<>> /\ Head(t) = "-" THEN Tail(t) ELSE t
    IN d # <<>> /\ \A k \in 1..Len(d) : \E n \in 1..10 : DigitChar[n] = d[k]

IntegerValue(t) ==
    IF Head(t) = "-" THEN 0 - DigitsValue(Tail(t)) ELSE DigitsValue(t)

\* The text between the quotes of a JSON string.
RECURSIVE jsonEscape(_)
jsonEscape(s) ==
    IF s = <<>> THEN <<>>
    ELSE (CASE Head(s) = "\"" -> <<"\\", "\"">>
            [] Head(s) = "\\" -> <<"\\", "\\">>
            [] Head(s) = "\n" -> <<"\\", "n">>
            [] Head(s) = "<" -> <<"\\", "u", "0", "0", "3", "c">>
            [] Head(s) = "&" -> <<"\\", "u", "0", "0", "2", "6">>
            [] OTHER -> <<Head(s)>>)
         \o jsonEscape(Tail(s))

\* The character a \u escape of the decoder's input stands for.
UnicodeEscapes ==
    (<<"0","0","3","c">> :> "<") @@ (<<"0","0","2","6">> :> "&")

RECURSIVE jsonUnescape(_)
jsonUnescape(t) ==
    IF t = <<>> THEN <<>>
    ELSE IF Head(t) # "\\" \/ Len(t) = 1
         THEN <<Head(t)>> \o jsonUnescape(Tail(t))
    ELSE IF t[2] = "n" THEN <<"\n">> \o jsonUnescape(SubSeq(t, 3, Len(t)))
    ELSE IF t[2] = "u" /\ Len(t) >= 6
              /\ SubSeq(t, 3, 6) \in DOMAIN UnicodeEscapes
         THEN <<UnicodeEscapes[SubSeq(t, 3, 6)]>>
              \o jsonUnescape(SubSeq(t, 7, Len(t)))
    ELSE <<t[2]>> \o jsonUnescape(SubSeq(t, 3, Len(t)))

\* One field of a record as a JSON member.
encodeValue(type, x) ==
    IF type = "int" THEN [kind |-> "number", text |-> Itoa(x)]
    ELSE [kind |-> "string", text |-> jsonEscape(x)]

encodeRecord(T, rec) ==
    [k \in 1..Len(EntityFields[T]) |->
       [key |-> EntityFields[T][k].tag,
        val |-> encodeValue(EntityFields[T][k].type, rec[EntityFields[T][k].field])]]

\* The JSON array of a list of records.
encodeList(T, recs) == [k \in 1..Len(recs) |-> encodeRecord(T, recs[k])]

\* A variant that takes an int field from a quoted number.
decodeValue_QuotedNumbers(type, val) ==
    IF type = "int"
    THEN IF val.kind = "string" /\ IsIntegerText(val.text)
         THEN [ok |-> TRUE, value |-> IntegerValue(val.text)]
         ELSE [ok |-> FALSE, value |-> 0]
    ELSE IF val.kind = "string"
         THEN [ok |-> TRUE, value |-> jsonUnescape(val.text)]
         ELSE [ok |-> FALSE, value |-> <<>>]

\* json.Unmarshal of one member into a field of the given Go type: a value
\* of another JSON kind is a type error and leaves the field as it was.
decodeValue(type, val) ==
    IF type = "int"
    THEN IF val.kind = "number" /\ IsIntegerText(val.text)
         THEN [ok |-> TRUE, value |-> IntegerValue(val.text)]
         ELSE [ok |-> FALSE, value |-> 0]
    ELSE IF val.kind = "string"
         THEN [ok |-> TRUE, value |-> jsonUnescape(val.text)]
         ELSE [ok |-> FALSE, value |-> <<>>]

\* json.Unmarshal of one object: members are matched to fields by JSON
\* name, members without a field are skipped.
RECURSIVE decodeRecord(_, _, _)
decodeRecord(T, members, acc) ==
    IF members = <<>> THEN acc
    ELSE LET m  == Head(members)
             fs == {EntityFields[T][k] : k \in 1..Len(EntityFields[T])}
             hit == {f \in fs : f.tag = m.key}
         IN IF hit = {} THEN decodeRecord(T, Tail(members), acc)
            ELSE LET f == CHOOSE g \in hit : TRUE
                     d == decodeValue(f.type, m.val)
                 IN decodeRecord(T, Tail(members),
                      [rec |-> IF d.ok THEN [acc.rec EXCEPT ![f.field] = d.value]
                               ELSE acc.rec,
                       err |-> IF d.ok THEN acc.err ELSE "json"])

\* json.Unmarshal(body, &list): the records and the error returned.
decodeList(T, doc) ==
    LET each == [k \in 1..Len(doc) |->
                   decodeRecord(T, doc[k], [rec |-> ZeroRecord(T), err |-> "none"])]
    IN [records |-> [k \in 1..Len(doc) |-> each[k].rec],
        err |-> IF \E k \in 1..Len(doc) : each[k].err # "none"
                THEN "json" ELSE "none"]

\* The longest list of records the controller service returns.
MaxRecords == 2

\* Identifiers and texts the records are filled with; the texts hold the
\* characters a JSON string has to escape.
SampleInts == {0, 42, -7}

SampleTexts ==
    { <<>>, <<"a">>, <<"\"", "\\", "n">>, <<"<", "&", "\n">>,
      <<"{", "\\", "u", "0", "0", "3", "c">> }

\* A record of type T: the k-th field holds n + k - 1 or the text followed
\* by a mark of the field, so that no two fields hold the same value.
SampleRecord(T, n, s) ==
    [name \in FieldNames(T) |->
       LET k == CHOOSE j \in 1..Len(EntityFields[T]) : EntityFields[T][j].field = name
       IN IF EntityFields[T][k].type = "int" THEN n + k - 1
          ELSE IF k = 2 THEN s ELSE s \o <<DigitChar[k]>>]

SampleLists(T) ==
    UNION { [1..len -> {SampleRecord(T, n, s) : n \in SampleInts, s \in SampleTexts}]
            : len \in 0..MaxRecords }

\* The controller service answers a list operation with the JSON document
\* of its records.
encodeRecords(i) ==
    /\ CanAccept(i)
    /\ inv[i].stage = "free"
    /\ \E op \in DOMAIN ElementType : \E recs \in SampleLists(ElementType[op]) :
         inv' = [inv EXCEPT ![i] =
                   [FreeInv EXCEPT !.stage = "waiting", !.handler = op,
                                   !.records = recs,
                                   !.json = encodeList(ElementType[op], recs)]]
    /\ UNCHANGED <<pc, controllerURL>>

\* The list operation decodes the body it read.
decodeRecords(i) ==
    /\ inv[i].stage = "waiting"
    /\ inv[i].handler \in DOMAIN ElementType
    /\ LET d == decodeList(ElementType[inv[i].handler], inv[i].json)
       IN inv' = [inv EXCEPT ![i] = [@ EXCEPT !.stage = "done",
                                               !.decoded = d.records,
                                               !.err = d.err]]
    /\ UNCHANGED <<pc, controllerURL>>

(***************************************************************************)
(* The process.                                                            *)
(***************************************************************************)

\* A variant that starts the server although the configuration could not
\* be read.
main_ServesUnconfigured ==
    /\ pc = "main"
    /\ \E readOK \in BOOLEAN :
         IF readOK
         THEN controllerURL' = ConfigURL /\ pc' = "serving"
         ELSE controllerURL' = controllerURL /\ pc' = "serving"
    /\ UNCHANGED inv

\* main: read the configuration, set controllerURL, start the server; a
\* configuration that cannot be read ends the process with a panic.
main ==
    /\ pc = "main"
    /\ \E readOK \in BOOLEAN :
         IF readOK
         THEN controllerURL' = ConfigURL /\ pc' = "serving"
         ELSE controllerURL' = controllerURL /\ pc' = "panic"
    /\ UNCHANGED inv

\* The handlers startHTTPServer registers, each run by a server task.
startHTTPServer(i) ==
    \/ staticPage(i)
    \/ listClusters(i)
    \/ listProfiles(i)
    \/ listConfigurations(i)
    \/ listTriggers(i)
    \/ describeConfiguration(i)
    \/ storeProfile(i)
    \/ storeConfiguration(i)
    \/ enableConfiguration(i)
    \/ disableConfiguration(i)
    \/ activateTrigger(i)
    \/ deactivateTrigger(i)
    \/ triggerMustGatherConfiguration(i)
    \/ triggerMustGather(i)

Init ==
    /\ pc = "main"
    /\ controllerURL = <<>>
    /\ inv = [i \in Slots |-> FreeInv]

Next == main \/ \E i \in Slots : startHTTPServer(i)

Spec == Init /\ [][Next]_vars

\* The list operations applied to the JSON documents of sample records.
NextJSON == main \/ \E i \in Slots : encodeRecords(i) \/ decodeRecords(i)

SpecJSON == Init /\ [][NextJSON]_vars

\* The server with MaxInFlight tasks, each running one handler at a time.
InitConc ==
    /\ pc = "main"
    /\ controllerURL = <<>>
    /\ inv = [i \in 1..MaxInFlight |-> FreeInv]

NextConc == main \/ \E i \in 1..MaxInFlight : startHTTPServer(i)

SpecConc == InitConc /\ [][NextConc]_vars

\* The static-page handler bound to arbitrary file names.
NextStatic == main \/ \E i \in Slots : staticPageFor(i)

SpecStatic == Init /\ [][NextStatic]_vars

(***************************************************************************)
(* Properties.                                                             *)
(***************************************************************************)

ReadHandlers ==
    {"listClusters", "listProfiles", "listConfigurations", "listTriggers",
     "describeConfiguration"}

ListHandlers ==
    {"listClusters", "listProfiles", "listConfigurations", "listTriggers"}

CreationHandlers == {"storeProfile", "storeConfiguration", "triggerMustGather"}

ToggleHandlers ==
    {"enableConfiguration", "disableConfiguration", "activateTrigger",
     "deactivateTrigger"}

WriteHandlers == CreationHandlers \cup ToggleHandlers

\* The invocation's gateway call has returned.
Called(v) == v.stage = "done" /\ v.result # <<>>

\* The HTTP client returned a response with one of the given statuses.
Answered(v, statuses) ==
    v.result[1].kind = "response" /\ v.result[1].status \in statuses

\* The handler wrote neither a status nor a body and did not redirect.
WroteNothing(v) ==
    /\ v.body = <<>>
    /\ v.status = 200
    /\ "Location" \notin DOMAIN v.headers
    /\ \A k \in 1..Len(v.events) :
         v.events[k] \notin {"WriteHeader", "Write", "Redirect", "Execute"}

\* C1 as stated: performReadRequest returns the body without error if and
\* only if the backend was reached and answered with status 200.
C1_ReadOkIffStatus200 ==
    \A i \in Slots :
      (inv[i].handler \in ReadHandlers /\ Called(inv[i]))
        => (inv[i].gw = "none" <=> Answered(inv[i], {200}))

\* C1 as amended: performReadRequest returns the raw body without error if
\* and only if the backend answered 200 and the body could be read; a 200
\* whose body cannot be read fails with the body-read error; every other
\* status fails with the unexpected-status error naming that status; the
\* communication error is returned exactly when the GET itself failed.
C1_ReadResult ==
    \A i \in Slots :
      (inv[i].handler \in ReadHandlers /\ Called(inv[i]))
        => LET v == inv[i]
               reply == v.result[1]
           IN /\ v.gw = "none" <=>
                   (Answered(v, {200}) /\ reply.body # "unreadable")
              /\ v.gw = "none" => v.data = reply.body
              /\ v.gw = "readbody" <=>
                   (Answered(v, {200}) /\ reply.body = "unreadable")
              /\ v.gw = "status" <=>
                   (reply.kind = "response" /\ reply.status # 200)
              /\ v.gw = "status" => v.gwCode = reply.status
              /\ v.gw = "comm" <=> reply.kind = "error"

\* C1 witness: a read answered with 404 failed with the unexpected-status
\* error for 404.
C1_Witness ==
    \E i \in Slots :
      /\ inv[i].handler \in ReadHandlers /\ Called(inv[i])
      /\ Answered(inv[i], {404})
      /\ inv[i].gw = "status" /\ inv[i].gwCode = 404

\* C2: performWriteRequest returns no error exactly when the backend
\* answered 200, 201 or 202; every other status, a request that could not
\* be created and a connection failure give an error.
C2_WriteOkIff200_201_202 ==
    \A i \in Slots :
      (inv[i].handler \in WriteHandlers /\ Called(inv[i]))
        => LET v == inv[i]
               reply == v.result[1]
           IN /\ v.gw = "none" <=> Answered(v, {200, 201, 202})
              /\ reply.kind = "norequest" => v.gw = "create"
              /\ reply.kind = "error" => v.gw = "comm"
              /\ Answered(v, {400, 500}) => v.gw = "status"

\* C2 witness: a write answered with 202 returned no error.
C2_Witness ==
    \E i \in Slots :
      /\ inv[i].handler \in WriteHandlers /\ Called(inv[i])
      /\ Answered(inv[i], {202})
      /\ inv[i].gw = "none"

\* The query parameters a handler requires.
RequiredParams ==
    ("describeConfiguration" :> {"configuration"}) @@
    ("enableConfiguration" :> {"id"}) @@
    ("disableConfiguration" :> {"id"}) @@
    ("activateTrigger" :> {"id"}) @@
    ("deactivateTrigger" :> {"id"}) @@
    ("triggerMustGatherConfiguration" :> {"clusterID", "clusterName"})

MissingParam(v) ==
    /\ v.handler \in DOMAIN RequiredParams
    /\ \E p \in RequiredParams[v.handler] : p \notin DOMAIN v.query

\* C3: a request that lacks a required query parameter is answered with
\* 404 and the body "Not found!", and no backend request is issued.
C3_MissingParam404 ==
    \A i \in Slots :
      (inv[i].stage # "free" /\ MissingParam(inv[i]))
        => /\ inv[i].stage = "done"
           /\ inv[i].status = 404
           /\ inv[i].body = <<"Not found!">>
           /\ inv[i].out = <<>>
           /\ inv[i].result = <<>>
           /\ inv[i].events = <<"WriteHeader", "Write">>

\* C3 witness: the must-gather form was requested with clusterID but
\* without clusterName, and the request has been answered.
C3_Witness ==
    \E i \in Slots :
      /\ inv[i].handler = "triggerMustGatherConfiguration"
      /\ inv[i].stage = "done"
      /\ "clusterID" \in DOMAIN inv[i].query
      /\ "clusterName" \notin DOMAIN inv[i].query
      /\ inv[i].status = 404

\* The invocation has handed its request to the gateway or has returned.
Started(v) == v.stage \in {"waiting", "done"}

\* C4 as stated: listTriggers issues a single GET whose path is
\* client/trigger when clusterName is absent and client/cluster/v/trigger
\* when it is present with value v; absence is not answered with an error.
C4_TriggersPathByClusterName ==
    \A i \in Slots :
      (inv[i].handler = "listTriggers" /\ Started(inv[i]))
        => LET v == inv[i] IN
           /\ Len(v.out) = 1
           /\ v.out[1].method = "GET"
           /\ v.events[1] = "Call"
           /\ "clusterName" \notin DOMAIN v.query =>
                v.out[1].Path = APIPrefix \o <<"c","l","i","e","n","t","/","t","r","i","g","g","e","r">>
           /\ "clusterName" \in DOMAIN v.query =>
                v.out[1].Path = APIPrefix \o <<"c","l","i","e","n","t","/","c","l","u","s","t","e","r","/">>
                                \o v.query["clusterName"] \o <<"/","t","r","i","g","g","e","r">>

\* C5: storeProfile issues one POST to controllerURL + /api/v1/ +
\* client/profile?username=<query-escaped username>&description=
\* <query-escaped description> with the submitted configuration as body; the
\* receiving service decodes the submitted username and description from it.
C5_StoreProfileRequest ==
    \A i \in Slots :
      (inv[i].handler = "storeProfile" /\ Started(inv[i]))
        => LET v == inv[i]
               username == FormGet(v.form, "username")
               description == FormGet(v.form, "description")
               configuration == FormGet(v.form, "configuration")
           IN /\ Len(v.out) = 1
              /\ v.out[1].method = "POST"
              /\ v.out[1].url =
                   controllerURL \o APIPrefix \o <<"c","l","i","e","n","t","/","p","r","o","f","i","l","e","?","u","s","e","r","n","a","m","e","=">>
                   \o QueryEscape(username) \o <<"&","d","e","s","c","r","i","p","t","i","o","n","=">>
                   \o QueryEscape(description)
              /\ v.out[1].hasBody /\ v.out[1].body = configuration
              /\ v.out[1].Path = APIPrefix \o <<"c","l","i","e","n","t","/","p","r","o","f","i","l","e">>
              /\ queryGet(v.out[1].RawQuery, <<"u","s","e","r","n","a","m","e">>) = username
              /\ queryGet(v.out[1].RawQuery, <<"d","e","s","c","r","i","p","t","i","o","n">>) = description
              /\ (username = VAlice /\ description = VTest) =>
                   v.out[1].url = <<"h","t","t","p",":","/","/","c","/","a","p","i","/","v","1","/","c","l","i","e","n","t","/","p","r","o","f","i","l","e","?","u","s","e","r","n","a","m","e","=","a","l","i","c","e","&","d","e","s","c","r","i","p","t","i","o","n","=","t","e","s","t">>

\* C5 witness: storeProfile has sent a form whose username carries query
\* delimiters.
C5_Witness ==
    \E i \in Slots :
      /\ inv[i].handler = "storeProfile" /\ Started(inv[i])
      /\ FormGet(inv[i].form, "username") = VAmp
      /\ Len(inv[i].out) = 1

CreatedPage ==
    ("storeProfile" :> "/profile-created") @@
    ("storeConfiguration" :> "/configuration-created") @@
    ("triggerMustGather" :> "/trigger-created")

NotCreatedPage ==
    ("storeProfile" :> "/profile-not-created") @@
    ("storeConfiguration" :> "/configuration-not-created") @@
    ("triggerMustGather" :> "/trigger-not-created")

\* C6: every invocation of a creation flow ends with exactly one 301
\* redirect, to its created page if and only if the gateway write returned
\* no error and to its not-created page otherwise, and nothing is sent to
\* the browser before the backend write has completed.
C6_CreationRedirect ==
    \A i \in Slots :
      inv[i].handler \in CreationHandlers
        => LET v == inv[i] IN
           /\ v.stage = "waiting" =>
                /\ v.status = 0
                /\ v.headers = <<>>
                /\ v.events = <<"Call">>
           /\ v.stage = "done" =>
                /\ v.events = <<"Call", "Reply", "Redirect">>
                /\ v.status = 301
                /\ v.headers["Location"] =
                     IF v.gw = "none" THEN CreatedPage[v.handler]
                     ELSE NotCreatedPage[v.handler]

\* C6 witness: storeProfile met a connection failure and redirected to
\* /profile-not-created.
C6_Witness ==
    \E i \in Slots :
      /\ inv[i].handler = "storeProfile" /\ Called(inv[i])
      /\ inv[i].result[1].kind = "error"
      /\ inv[i].status = 301
      /\ inv[i].headers["Location"] = "/profile-not-created"

TogglePath(handler, id) ==
    APIPrefix \o
    (IF handler = "enableConfiguration"
     THEN <<"c","l","i","e","n","t","/","c","o","n","f","i","g","u","r","a","t","i","o","n","/">> \o id \o <<"/","e","n","a","b","l","e">>
     ELSE IF handler = "disableConfiguration"
     THEN <<"c","l","i","e","n","t","/","c","o","n","f","i","g","u","r","a","t","i","o","n","/">> \o id \o <<"/","d","i","s","a","b","l","e">>
     ELSE IF handler = "activateTrigger"
     THEN <<"c","l","i","e","n","t","/","t","r","i","g","g","e","r","/">> \o id \o <<"/","a","c","t","i","v","a","t","e">>
     ELSE <<"c","l","i","e","n","t","/","t","r","i","g","g","e","r","/">> \o id \o <<"/","d","e","a","c","t","i","v","a","t","e">>)

ListPage ==
    ("enableConfiguration" :> "/list-configurations") @@
    ("disableConfiguration" :> "/list-configurations") @@
    ("activateTrigger" :> "/list-triggers") @@
    ("deactivateTrigger" :> "/list-triggers")

\* C7 as stated: a toggle handler called with id=X issues one PUT without
\* a body to its backend path for X and redirects with 307 to its list page
\* only after that write succeeded.
C7_ToggleRequestThenRedirect ==
    \A i \in Slots :
      (inv[i].handler \in ToggleHandlers /\ Started(inv[i])
       /\ "id" \in DOMAIN inv[i].query)
        => LET v == inv[i] IN
           /\ Len(v.out) = 1
           /\ v.out[1].method = "PUT"
           /\ ~v.out[1].hasBody
           /\ v.out[1].Path = TogglePath(v.handler, v.query["id"])
           /\ v.stage = "waiting" => v.status = 0 /\ v.headers = <<>>
           /\ (v.stage = "done" /\ v.gw = "none") =>
                /\ v.events = <<"Call", "Reply", "Redirect">>
                /\ v.status = 307
                /\ v.headers["Location"] = ListPage[v.handler]

\* C8 as stated: when the gateway read of a read-and-render handler fails,
\* the handler writes neither status nor body (an empty implicit 200).
C8_ReadFailureWritesNothing ==
    \A i \in Slots :
      (inv[i].handler \in ReadHandlers /\ Called(inv[i])
       /\ inv[i].err # "none")
        => WroteNothing(inv[i])

\* C8 as amended: when the gateway read fails, listClusters, listProfiles,
\* listConfigurations and listTriggers write neither status nor body (an
\* empty implicit 200), and describeConfiguration answers 404 with the body
\* "Not found!".
C8_ReadFailureResponse ==
    \A i \in Slots :
      (inv[i].handler \in ReadHandlers /\ Called(inv[i])
       /\ inv[i].err # "none")
        => IF inv[i].handler \in ListHandlers
           THEN WroteNothing(inv[i])
           ELSE /\ inv[i].status = 404
                /\ inv[i].body = <<"Not found!">>
                /\ "Location" \notin DOMAIN inv[i].headers

\* C8 witness: listConfigurations returned after a backend 500 with an
\* empty body.
C8_Witness ==
    \E i \in Slots :
      /\ inv[i].handler = "listConfigurations" /\ Called(inv[i])
      /\ Answered(inv[i], {500})
      /\ inv[i].err # "none"
      /\ inv[i].body = <<>>

\* C9: when the gateway write of a toggle handler fails, the handler issues
\* no redirect and writes neither status nor body (an empty implicit 200).
C9_ToggleFailureWritesNothing ==
    \A i \in Slots :
      (inv[i].handler \in ToggleHandlers /\ Called(inv[i])
       /\ inv[i].gw # "none")
        => WroteNothing(inv[i])

\* C9 witness: enableConfiguration returned after a backend 500.
C9_Witness ==
    \E i \in Slots :
      /\ inv[i].handler = "enableConfiguration" /\ Called(inv[i])
      /\ Answered(inv[i], {500})
      /\ inv[i].gw = "status"
      /\ inv[i].status = 200

\* A failure outcome: missing parameter, gateway failure, template load
\* failure or unreadable static file.
FailureOutcome(v) ==
    \/ MissingParam(v)
    \/ Called(v) /\ v.err # "none"
    \/ v.tpl = "failed"
    \/ v.file = "unreadable"

\* C10 as stated: on every failure outcome the browser receives a page with
\* a non-empty body or a redirect, never an empty response.
C10_FailureNeverEmpty ==
    \A i \in Slots :
      (inv[i].stage = "done" /\ FailureOutcome(inv[i]))
        => \/ inv[i].body # <<>>
           \/ "Location" \in DOMAIN inv[i].headers

(***************************************************************************)
(* The REST surface of the controller service.                             *)
(***************************************************************************)

\* An endpoint shape: a literal path, or a placeholder between two literals.
Literal(p) == [pre |-> p, hole |-> FALSE, suf |-> <<>>]

Placeholder(p, s) == [pre |-> p, hole |-> TRUE, suf |-> s]

\* The twelve endpoint shapes of the backend's REST surface.
ListedEndpoints ==
    { Literal(<<"c","l","i","e","n","t","/","c","l","u","s","t","e","r">>),
      Literal(<<"c","l","i","e","n","t","/","p","r","o","f","i","l","e">>),
      Placeholder(<<"c","l","i","e","n","t","/","p","r","o","f","i","l","e","/">>, <<>>),
      Literal(<<"c","l","i","e","n","t","/","c","o","n","f","i","g","u","r","a","t","i","o","n">>),
      Placeholder(<<"c","l","i","e","n","t","/","c","o","n","f","i","g","u","r","a","t","i","o","n","/">>, <<>>),
      Placeholder(<<"c","l","i","e","n","t","/","c","o","n","f","i","g","u","r","a","t","i","o","n","/">>, <<"/","e","n","a","b","l","e">>),
      Placeholder(<<"c","l","i","e","n","t","/","c","o","n","f","i","g","u","r","a","t","i","o","n","/">>, <<"/","d","i","s","a","b","l","e">>),
      Placeholder(<<"c","l","i","e","n","t","/","c","l","u","s","t","e","r","/">>, <<"/","t","r","i","g","g","e","r">>),
      Literal(<<"c","l","i","e","n","t","/","t","r","i","g","g","e","r">>),
      Placeholder(<<"c","l","i","e","n","t","/","t","r","i","g","g","e","r","/">>, <<"/","a","c","t","i","v","a","t","e">>),
      Placeholder(<<"c","l","i","e","n","t","/","t","r","i","g","g","e","r","/">>, <<"/","d","e","a","c","t","i","v","a","t","e">>),
      Placeholder(<<"c","l","i","e","n","t","/","c","l","u","s","t","e","r","/">>, <<"/","t","r","i","g","g","e","r","/","m","u","s","t","-","g","a","t","h","e","r">>) }

\* The endpoint to which storeConfiguration posts.
ClusterConfigurationEndpoint ==
    Placeholder(<<"c","l","i","e","n","t","/","c","l","u","s","t","e","r","/">>, <<"/","c","o","n","f","i","g","u","r","a","t","i","o","n">>)

MatchesShape(e, shape) ==
    IF shape.hole
    THEN /\ Len(e) >= Len(shape.pre) + Len(shape.suf)
         /\ HasPrefix(e, shape.pre)
         /\ HasSuffix(e, shape.suf)
    ELSE e = shape.pre

\* The URL string is controllerURL, the API prefix and one of the shapes,
\* followed by a query string where the request carries one.
OnEndpoint(url, shapes) ==
    /\ HasPrefix(url, controllerURL \o APIPrefix)
    /\ LET e == SubSeq(url, Len(controllerURL \o APIPrefix) + 1, Len(url))
       IN \E shape \in shapes :
            \/ MatchesShape(e, shape)
            \/ MatchesShape(Cut(e, "?").before, shape)

TypeByExtension(filename) ==
    CASE HasSuffix(filename, <<".","h","t","m","l">>) -> "text/html"
      [] HasSuffix(filename, <<".","j","s">>) -> "application/javascript"
      [] HasSuffix(filename, <<".","c","s","s">>) -> "text/css"
      [] OTHER -> "text/html"

\* C12: the static-page handler answers 404 "Not found!" and sets neither
\* Server nor Content-Type when its file cannot be read; otherwise it sends
\* the file's content with Server: A Go Web Server and the Content-Type of
\* the file's extension (.html, .js, .css; text/html for any other name).
C12_StaticPage ==
    \A i \in DOMAIN inv :
      (inv[i].handler = "staticPage" /\ inv[i].stage = "done")
        => LET v == inv[i] IN
           /\ v.out = <<>>
           /\ v.file \in {"read", "unreadable"}
           /\ v.file = "unreadable" =>
                /\ v.status = 404
                /\ v.body = <<"Not found!">>
                /\ DOMAIN v.headers = {}
           /\ v.file = "read" =>
                /\ v.status = 200
                /\ v.body = <<"file">>
                /\ DOMAIN v.headers = {"Server", "Content-Type"}
                /\ v.headers["Server"] = "A Go Web Server"
                /\ v.headers["Content-Type"] = TypeByExtension(v.filename)

\* C12 witness: a file whose name has none of the three extensions was
\* read and sent as text/html.
C12_Witness ==
    \E i \in DOMAIN inv :
      /\ inv[i].handler = "staticPage" /\ inv[i].stage = "done"
      /\ inv[i].file = "read"
      /\ HasSuffix(inv[i].filename, <<".","t","x","t">>)
      /\ inv[i].headers["Content-Type"] = "text/html"
      /\ inv[i].body = <<"file">>

AllFree == \A i \in DOMAIN inv : inv[i] = FreeInv

\* C13: controllerURL is written once, by main, after the configuration was
\* read and before any request is served; when the configuration cannot be
\* read the process ends without serving; no handler step of any task
\* changes controllerURL.
C13_ControllerURLWrittenOnceByMain ==
    /\ [](pc = "main" => (controllerURL = <<>> /\ AllFree))
    /\ [](pc = "panic" => (controllerURL = <<>> /\ AllFree))
    /\ [](pc = "serving" => controllerURL = ConfigURL)
    /\ [][pc # "panic"]_vars
    /\ [][controllerURL' # controllerURL => (pc = "main" /\ pc' = "serving")]_vars
    /\ [][inv' # inv => (pc = "serving" /\ UNCHANGED <<pc, controllerURL>>)]_vars

\* C13 witness: two handlers are in flight at once, one of them blocked in
\* its backend call and one answered, with controllerURL as main set it.
C13_Witness ==
    /\ pc = "serving"
    /\ controllerURL = ConfigURL
    /\ \E i, j \in DOMAIN inv :
         /\ i # j
         /\ inv[i].stage = "waiting"
         /\ inv[j].stage = "done" /\ Len(inv[j].out) = 1
         /\ HasPrefix(inv[i].out[1].url, ConfigURL)
         /\ HasPrefix(inv[j].out[1].url, ConfigURL)

\* C14: the JSON document of a list of Cluster, ConfigurationProfile,
\* ClusterConfiguration or Trigger records, decoded by the list operation
\* of that type, gives the same records field by field and no error.
C14_JSONRoundTrip ==
    \A i \in DOMAIN inv :
      (inv[i].handler \in DOMAIN ElementType /\ inv[i].stage = "done")
        => /\ inv[i].err = "none"
           /\ Len(inv[i].decoded) = Len(inv[i].records)
           /\ \A k \in 1..Len(inv[i].records) :
                \A name \in FieldNames(ElementType[inv[i].handler]) :
                  inv[i].decoded[k][name] = inv[i].records[k][name]

\* C14 witness: a list of two triggers whose texts hold a quote and a
\* backslash was encoded with escapes and decoded again.
C14_Witness ==
    \E i \in DOMAIN inv :
      /\ inv[i].handler = "readListOfTriggers" /\ inv[i].stage = "done"
      /\ Len(inv[i].records) = 2
      /\ inv[i].records[1].Type = <<"\"", "\\", "n">>
      /\ inv[i].json[1][2].val.text = <<"\\", "\"", "\\", "\\", "n">>
      /\ inv[i].records[2].Active = 9 + 42
      /\ inv[i].decoded[2].Active = 51

NoCacheHandlers == {"listConfigurations", "listTriggers"}

\* All four cache-busting headers are set to their fixed values.
HasNoCacheHeaders(v) ==
    \A h \in DOMAIN noCacheHeaders :
      h \in DOMAIN v.headers /\ v.headers[h] = noCacheHeaders[h]

\* C15 as stated: in listConfigurations and listTriggers setting the
\* cache-busting headers is the first thing the handler does, before it
\* issues its backend read.
C15_HeadersBeforeRead ==
    \A i \in DOMAIN inv :
      (inv[i].handler \in NoCacheHandlers /\ Started(inv[i]))
        => /\ inv[i].events[1] = "Header"
           /\ HasNoCacheHeaders(inv[i])

\* C15: in listConfigurations and listTriggers the backend read comes
\* first; the cache-busting headers are set when the read has returned,
\* before the handler writes a status or a body, and no header is set while
\* the read is outstanding.
C15_HeadersAfterReadBeforeWrite ==
    \A i \in DOMAIN inv :
      (inv[i].handler \in NoCacheHandlers /\ Started(inv[i]))
        => LET v == inv[i] IN
           /\ v.events[1] = "Call"
           /\ v.stage = "waiting" =>
                (v.events = <<"Call">> /\ DOMAIN v.headers = {})
           /\ v.stage = "done" =>
                /\ Len(v.events) >= 3
                /\ SubSeq(v.events, 1, 3) = <<"Call", "Reply", "Header">>
                /\ HasNoCacheHeaders(v)

\* C15 witness: listConfigurations read the configurations, then set the
\* headers, then rendered the page.
C15_Witness ==
    \E i \in DOMAIN inv :
      /\ inv[i].handler = "listConfigurations" /\ inv[i].stage = "done"
      /\ Len(inv[i].out) = 1 /\ inv[i].err = "none"
      /\ inv[i].exec = "ok" /\ inv[i].status = 200
      /\ SubSeq(inv[i].events, 1, 3) = <<"Call", "Reply", "Header">>
      /\ Len(inv[i].events) > 3
      /\ HasNoCacheHeaders(inv[i])

\* The characters that delimit the parts of a URL.
Delimiters == {"/", "?", "&", "#"}

DelimiterCount(s) == Cardinality({k \in 1..Len(s) : s[k] \in Delimiters})

\* The URL each write handler builds when every submitted value is empty:
\* the delimiters of the endpoint itself.
BareURL ==
    ("storeProfile" :> storeProfileURL(controllerURL, <<>>, <<>>)) @@
    ("storeConfiguration" :>
        storeConfigurationURL(controllerURL, <<>>, <<>>, <<>>, <<>>)) @@
    ("triggerMustGather" :>
        triggerMustGatherURL(controllerURL, <<>>, <<>>, <<>>, <<>>)) @@
    ("enableConfiguration" :> enableConfigurationURL(controllerURL, <<>>)) @@
    ("disableConfiguration" :> disableConfigurationURL(controllerURL, <<>>)) @@
    ("activateTrigger" :> activateTriggerURL(controllerURL, <<>>)) @@
    ("deactivateTrigger" :> deactivateTriggerURL(controllerURL, <<>>))

\* C16 as stated: in every write-and-redirect handler the submitted values
\* are percent-encoded where they enter the outbound URL, so the URL sent
\* has exactly the delimiters of the handler's endpoint: no value adds a
\* '/', '?', '&' or '#'.
C16_SubmittedValuesAreEncoded ==
    \A i \in DOMAIN inv :
      inv[i].handler \in WriteHandlers
        => \A k \in 1..Len(inv[i].out) :
             DelimiterCount(inv[i].out[k].url)
               = DelimiterCount(BareURL[inv[i].handler])

\* The handlers that never call the backend.
LocalHandlers == {"staticPage", "triggerMustGatherConfiguration"}

\* C17 as stated: an invocation that passes its parameter validation hands
\* exactly one request to the backend and uses the reply to that request;
\* static pages, the must-gather form and invocations rejected for a
\* missing parameter hand none.
C17_ExactlyOneRequest ==
    \A i \in DOMAIN inv :
      (inv[i].handler \in LocalHandlers \cup ReadHandlers \cup WriteHandlers
         /\ Started(inv[i]))
        => LET v == inv[i] IN
           IF v.handler \in LocalHandlers \/ MissingParam(v)
           THEN v.out = <<>> /\ v.result = <<>>
           ELSE /\ Len(v.out) = 1
                /\ v.stage = "waiting" => v.result = <<>>
                /\ v.stage = "done" => Len(v.result) = 1

\* What each rendering handler writes when its template cannot be loaded.
TemplateFailureText ==
    ("listClusters" :> "Not found!") @@
    ("listProfiles" :> "Not found!") @@
    ("listConfigurations" :> "Not found!") @@
    ("listTriggers" :> "Not found!") @@
    ("describeConfiguration" :> "Error parsing template") @@
    ("triggerMustGatherConfiguration" :> "Error parsing template")

\* C18: when the page template cannot be loaded, after a successful read
\* or, in triggerMustGatherConfiguration, after the parameters were
\* accepted, the handler answers 404 with "Not found!" (list handlers) or
\* "Error parsing template" (describeConfiguration,
\* triggerMustGatherConfiguration) and renders nothing.
C18_TemplateFailure404 ==
    \A i \in DOMAIN inv :
      inv[i].tpl = "failed"
        => LET v == inv[i] IN
           /\ v.handler \in DOMAIN TemplateFailureText
           /\ v.stage = "done"
           /\ v.status = 404
           /\ v.body = <<TemplateFailureText[v.handler]>>
           /\ \A k \in 1..Len(v.events) : v.events[k] # "Execute"
           /\ v.exec = ""
           /\ v.handler \in ReadHandlers =>
                (Len(v.out) = 1 /\ v.err = "none" /\ v.result[1].status = 200)
           /\ v.handler = "triggerMustGatherConfiguration" =>
                (v.out = <<>> /\ ~MissingParam(v) /\ AtoiOK(v.query["clusterID"]))

\* C18 witness: describeConfiguration read the profile, could not load its
\* template and answered 404 "Error parsing template".
C18_Witness ==
    \E i \in DOMAIN inv :
      /\ inv[i].handler = "describeConfiguration" /\ inv[i].stage = "done"
      /\ inv[i].tpl = "failed"
      /\ inv[i].err = "none" /\ Len(inv[i].out) = 1
      /\ inv[i].status = 404
      /\ inv[i].body = <<"Error parsing template">>

\* Two invocations were given the same request.
SameRequest(a, b) ==
    /\ a.handler = b.handler /\ a.route = b.route /\ a.method = b.method
    /\ a.query = b.query /\ a.form = b.form

\* Two invocations got the same answers from the backend and the html
\* directory.
SameAnswers(a, b) ==
    /\ a.stage = b.stage /\ a.result = b.result
    /\ a.tpl = b.tpl /\ a.exec = b.exec /\ a.file = b.file

\* C19: with several handler invocations interleaved, a step of one
\* invocation changes no other invocation; invocations with the same
\* request and the same replies to their own calls have the same outbound
\* request and the same response; and while an invocation is blocked in its
\* backend call every other task can still take and answer a request.
C19_InvocationsAreIndependent ==
    /\ [][\A i \in DOMAIN inv :
            inv'[i] # inv[i] =>
              \A j \in DOMAIN inv \ {i} : inv'[j] = inv[j]]_vars
    /\ [](\A i, j \in DOMAIN inv :
            (inv[i].stage # "free" /\ inv[j].stage # "free"
               /\ SameRequest(inv[i], inv[j]) /\ SameAnswers(inv[i], inv[j]))
              => /\ inv[i].out = inv[j].out
                 /\ inv[i].status = inv[j].status
                 /\ inv[i].headers = inv[j].headers
                 /\ inv[i].body = inv[j].body)
    /\ [](\A i, j \in DOMAIN inv :
            (i # j /\ inv[i].stage = "waiting")
              => /\ inv[j].stage \in {"free", "done"} => ENABLED staticPage(j)
                 /\ inv[j].stage \in {"free", "done"} =>
                      ENABLED triggerMustGatherConfiguration(j)
                 /\ inv[j].stage = "waiting" => ENABLED startHTTPServer(j))

\* C19 witness: two invocations of listTriggers for the same cluster are in
\* flight; one is still blocked in its backend call, the other was answered
\* with a transport failure of its own call.
C19_Witness ==
    \E i, j \in DOMAIN inv :
      /\ i # j
      /\ inv[i].handler = "listTriggers" /\ inv[j].handler = "listTriggers"
      /\ inv[i].query = inv[j].query
      /\ inv[i].stage = "waiting" /\ inv[i].result = <<>>
      /\ inv[j].stage = "done" /\ inv[j].gw = "comm"
      /\ inv[i].out = inv[j].out

NoCacheHeaderNames == {"Expires", "Cache-Control", "Pragma", "X-Accel-Expires"}

\* C20: every response of listConfigurations and listTriggers carries the
\* four no-cache headers, whatever the outcome, and no other handler sets
\* any of them.
C20_NoCacheHeadersOnLists ==
    \A i \in DOMAIN inv :
      LET v == inv[i] IN
      /\ (v.stage = "done" /\ v.handler \in NoCacheHandlers) =>
           /\ NoCacheHeaderNames \subseteq DOMAIN v.headers
           /\ v.headers["Cache-Control"] = "no-cache, private, max-age=0"
           /\ v.headers["Pragma"] = "no-cache"
           /\ v.headers["X-Accel-Expires"] = "0"
      /\ (v.stage # "free" /\ v.handler \notin NoCacheHandlers) =>
           NoCacheHeaderNames \cap DOMAIN v.headers = {}

\* C20 witness: listTriggers could not read the triggers and returned
\* without writing; its empty response carries the four headers.
C20_Witness ==
    \E i \in DOMAIN inv :
      /\ inv[i].handler = "listTriggers" /\ inv[i].stage = "done"
      /\ inv[i].err # "none"
      /\ inv[i].body = <<>>
      /\ NoCacheHeaderNames \subseteq DOMAIN inv[i].headers

\* How often the handler made the given call.
CallCount(v, call) == Cardinality({k \in 1..Len(v.events) : v.events[k] = call})

\* The texts a handler writes after WriteHeader(404).
FixedBodies == {"Not found!", "Error parsing template"}

\* C21: every invocation commits at most one response outcome: one
\* WriteHeader(404) followed by one fixed body, or one redirect, or one
\* page (a rendered template or a static file), or nothing; a 404 is never
\* followed by a redirect or a rendering, and WriteHeader and http.Redirect
\* are each called at most once.
C21_AtMostOneOutcome ==
    \A i \in DOMAIN inv :
      inv[i].stage # "free"
        => LET v == inv[i]
               notFound == CallCount(v, "WriteHeader")
               redirect == CallCount(v, "Redirect")
               rendered == CallCount(v, "Execute")
               sentFile == IF v.file = "read" THEN 1 ELSE 0
           IN /\ notFound <= 1 /\ redirect <= 1 /\ rendered <= 1
              /\ notFound + redirect + rendered + sentFile <= 1
              /\ CallCount(v, "Write") <= 1
              /\ notFound = 1 =>
                   /\ v.status = 404
                   /\ Len(v.body) = 1 /\ v.body[1] \in FixedBodies
                   /\ Len(v.events) >= 2
                   /\ SubSeq(v.events, Len(v.events) - 1, Len(v.events))
                        = <<"WriteHeader", "Write">>
              /\ redirect = 1 =>
                   /\ v.status \in {301, 307}
                   /\ CallCount(v, "Write") = 0
                   /\ v.events[Len(v.events)] = "Redirect"
              /\ (rendered = 1 \/ sentFile = 1) => v.status = 200
              /\ (v.stage = "done"
                    /\ notFound + redirect + rendered + sentFile = 0) =>
                   (v.status = 200 /\ v.body = <<>>)
              /\ v.stage = "waiting" =>
                   (v.status = 0 /\ v.body = <<>>
                      /\ notFound + redirect + rendered + sentFile = 0)

\* C21 witness: disableConfiguration passed its parameter check, its write
\* succeeded, and it committed exactly one redirect and nothing else.
C21_Witness ==
    \E i \in DOMAIN inv :
      /\ inv[i].handler = "disableConfiguration" /\ inv[i].stage = "done"
      /\ inv[i].gw = "none"
      /\ CallCount(inv[i], "Redirect") = 1
      /\ CallCount(inv[i], "WriteHeader") = 0
      /\ CallCount(inv[i], "Write") = 0
      /\ inv[i].status = 307

\* C22 as stated: every response the gateway received has had its body
\* closed when performReadRequest or performWriteRequest returns, so no
\* answered invocation leaves a backend response open.
C22_ResponsesReleased ==
    \A i \in DOMAIN inv :
      inv[i].stage = "done" => inv[i].open = 0

====
